---- MODULE Spec2Model ----
(***************************************************************************)
(* Model of pkg/logs/sender/connection_manager.go: one ConnectionManager,  *)
(* its callers (NewConnection, CloseConnection, writes on returned         *)
(* handles), the close-watchers it starts (handleServerClose) and the      *)
(* network environment (dial/handshake outcomes, the peer of each stream). *)
(***************************************************************************)
EXTENDS Integers, Sequences, FiniteSets, TLC

\* ------------------------------------------------------------------ bounds
NumCallers == 2
MaxRetries == 2
MaxAcquireRetries == 17
MaxWatchCallers == 1
MaxWatchRetries == 1
MaxWatchConns == 1
MaxConns == 2
MaxNilWatchers == 1
MaxBackoffInput == 100
MaxPending == 1

\* ------------------------------------------------------- program constants
backoffSleepTimeUnit == 2
maxBackoffSleepTime == 30

Callers == 1..NumCallers
NoCaller == 0
\* the nil net.Conn; real streams are the indices of conns
NilConn == 0
ProxyAddresses == {"", "proxy:1080"}

VARIABLES
    devModeNoSSL,   \* cm.devModeNoSSL
    socksProxy,     \* cm.socksProxy
    mutex,          \* cm.mutex: the caller holding it, or NoCaller
    retries,        \* cm.retries
    firstConn,      \* cm.firstConn
    pc,             \* each caller's position in NewConnection
    outConn,        \* each caller's local outConn
    ret,            \* the value each caller's last NewConnection returned
    conns,          \* every stream a dial established, in dial order
    nilWatchers,    \* handleServerClose goroutines started on a nil conn
    crashed,        \* the process died of an unrecovered panic
    infoBackend,    \* number of "Connecting to the backend" diagnostics
    attempted,      \* some attempt has been started on this manager
    dialVias,       \* the kinds of dial performed so far
    handshook,      \* some TLS handshake has been performed
    att,            \* per caller: facts about the current call and attempt
    sleeps          \* per caller: backoff sleeps of the current call, seconds

vars == <<devModeNoSSL, socksProxy, mutex, retries, firstConn, pc, outConn, ret,
          conns, nilWatchers, crashed, infoBackend, attempted, dialVias,
          handshook, att, sleeps>>

config == <<devModeNoSSL, socksProxy>>
manager == <<mutex, retries, firstConn>>
logs == <<infoBackend, attempted>>

ConnIds == 1..Len(conns)

Min(a, b) == IF a < b THEN a ELSE b

\* per-call bookkeeping: attempts started, attempts that failed, warnings
\* emitted, what the current attempt's dial and handshake did, whether the
\* current attempt is the manager's first ever, and the informational
\* diagnostics it has emitted
NoAttempt == [attempts |-> 0, fails |-> 0, warns |-> 0,
              dialOk |-> FALSE, hsDone |-> FALSE, hsOk |-> FALSE,
              first |-> FALSE, infos |-> 0]

NewStream(via) == [via |-> via, tls |-> FALSE, closed |-> FALSE,
                   returned |-> FALSE, peer |-> "open", pending |-> 0,
                   watcher |-> "none", watchers |-> 0, warnings |-> 0,
                   discarded |-> FALSE]

\* NewConnectionManager
Init ==
    /\ devModeNoSSL \in BOOLEAN
    /\ socksProxy \in ProxyAddresses
    /\ mutex = NoCaller
    /\ retries = 0
    /\ firstConn = TRUE
    /\ pc = [c \in Callers |-> "idle"]
    /\ outConn = [c \in Callers |-> NilConn]
    /\ ret = [c \in Callers |-> NilConn]
    /\ conns = <<>>
    /\ nilWatchers = 0
    /\ crashed = FALSE
    /\ infoBackend = 0
    /\ attempted = FALSE
    /\ dialVias = {}
    /\ handshook = FALSE
    /\ att = [c \in Callers |-> NoAttempt]
    /\ sleeps = [c \in Callers |-> <<>>]

\* ------------------------------------------------------------- NewConnection
\* line 56: cm.mutex.Lock() proceeds only when nobody holds the mutex
MutexFreeAlways == TRUE
MutexFree == mutex = NoCaller

\* line 62: the value firstConn is given once the diagnostic is emitted
firstConnStaysSet == TRUE
firstConnAfterLog == FALSE

\* line 70: a dial goes through the SOCKS5 dialer iff socksProxy is non-empty
UseProxyNever == FALSE
UseProxy == socksProxy # ""

\* line 88: the TLS handshake is performed iff devModeNoSSL is false
UseTLSAlways == TRUE
UseTLS == ~devModeNoSSL

\* line 102: the value retries is given when an attempt has succeeded
retriesKept == retries
retriesOnSuccess == 0

\* lines 131-134: the sleep duration, in seconds, for a given value of retries
backoffDurationNoCap(r) == backoffSleepTimeUnit * r
backoffDurationPreIncrement(r) ==
    IF backoffSleepTimeUnit * (r - 1) > maxBackoffSleepTime
    THEN maxBackoffSleepTime
    ELSE backoffSleepTimeUnit * (r - 1)
backoffDuration(r) ==
    IF backoffSleepTimeUnit * r > maxBackoffSleepTime
    THEN maxBackoffSleepTime
    ELSE backoffSleepTimeUnit * r

\* log.Warn(err) on the acquisition path (lines 74, 83, 95)
Warned(a) == [a EXCEPT !.warns = @ + 1, !.fails = @ + 1]

\* log.Info("Connecting to logs intake via socks5://", ...) (line 71)
ViaProxyLogged(a) == [a EXCEPT !.infos = @ + 1]

\* a caller enters NewConnection and reaches cm.mutex.Lock() (lines 55-56)
Call(c) ==
    /\ ~crashed
    /\ pc[c] \in {"idle", "returned"}
    /\ pc' = [pc EXCEPT ![c] = "lock"]
    /\ ret' = [ret EXCEPT ![c] = NilConn]
    /\ UNCHANGED <<config, manager, outConn, conns, nilWatchers, crashed, logs,
                   dialVias, handshook, att, sleeps>>

\* cm.mutex.Lock() returns (line 56)
Lock(c) ==
    /\ ~crashed
    /\ pc[c] = "lock"
    /\ MutexFree
    /\ mutex' = c
    /\ pc' = [pc EXCEPT ![c] = "loop"]
    /\ UNCHANGED <<config, retries, firstConn, outConn, ret, conns, nilWatchers,
                   crashed, logs, dialVias, handshook, att, sleeps>>

\* the head of one loop iteration (lines 60-68)
BeginAttempt(c) ==
    /\ ~crashed
    /\ pc[c] = "loop"
    /\ infoBackend' = IF firstConn THEN infoBackend + 1 ELSE infoBackend
    /\ firstConn' = IF firstConn THEN firstConnAfterLog ELSE firstConn
    /\ retries' = retries + 1
    /\ attempted' = TRUE
    /\ outConn' = [outConn EXCEPT ![c] = NilConn]
    /\ att' = [att EXCEPT ![c] = [@ EXCEPT !.attempts = @ + 1, !.dialOk = FALSE,
                                           !.hsDone = FALSE, !.hsOk = FALSE,
                                           !.first = firstConn,
                                           !.infos = IF firstConn THEN 1 ELSE 0]]
    /\ pc' = [pc EXCEPT ![c] = "dial"]
    /\ UNCHANGED <<config, mutex, ret, conns, nilWatchers, crashed, dialVias,
                   handshook, sleeps>>

\* proxy.SOCKS5 returns an error (lines 70-77)
ProxySetupFail(c) ==
    /\ ~crashed
    /\ pc[c] = "dial"
    /\ UseProxy
    /\ att' = [att EXCEPT ![c] = Warned(ViaProxyLogged(@))]
    /\ pc' = [pc EXCEPT ![c] = "backoff"]
    /\ UNCHANGED <<config, manager, outConn, ret, conns, nilWatchers, crashed,
                   logs, dialVias, handshook, sleeps>>

\* proxyDialer.Dial (lines 70-78) and the test of line 82. The err assigned in
\* line 78 is the one line 72 declares inside the if block; the err line 82
\* tests is the one of line 68, which the proxy branch never assigns: the test
\* is false whatever the dial did, and a failed dial leaves outConn nil.
ProxyDial(c, ok) ==
    /\ ~crashed
    /\ pc[c] = "dial"
    /\ UseProxy
    /\ IF ok
       THEN /\ conns' = Append(conns, NewStream("socks5"))
            /\ outConn' = [outConn EXCEPT ![c] = Len(conns) + 1]
            /\ att' = [att EXCEPT ![c] = [ViaProxyLogged(@) EXCEPT !.dialOk = TRUE]]
       ELSE /\ outConn' = [outConn EXCEPT ![c] = NilConn]
            /\ att' = [att EXCEPT ![c] = [ViaProxyLogged(@) EXCEPT !.fails = @ + 1]]
            /\ UNCHANGED conns
    /\ dialVias' = dialVias \cup {"socks5"}
    /\ pc' = [pc EXCEPT ![c] = "secure"]
    /\ UNCHANGED <<config, manager, ret, nilWatchers, crashed, logs, handshook,
                   sleeps>>

\* net.DialTimeout (lines 79-86)
DirectDial(c, ok) ==
    /\ ~crashed
    /\ pc[c] = "dial"
    /\ ~UseProxy
    /\ IF ok
       THEN /\ conns' = Append(conns, NewStream("direct"))
            /\ outConn' = [outConn EXCEPT ![c] = Len(conns) + 1]
            /\ att' = [att EXCEPT ![c] = [@ EXCEPT !.dialOk = TRUE]]
            /\ pc' = [pc EXCEPT ![c] = "secure"]
       ELSE /\ att' = [att EXCEPT ![c] = Warned(@)]
            /\ pc' = [pc EXCEPT ![c] = "backoff"]
            /\ UNCHANGED <<conns, outConn>>
    /\ dialVias' = dialVias \cup {"direct"}
    /\ UNCHANGED <<config, manager, ret, nilWatchers, crashed, logs, handshook,
                   sleeps>>

\* line 88 with devModeNoSSL set: the TLS block is skipped
SkipTLS(c) ==
    /\ ~crashed
    /\ pc[c] = "secure"
    /\ ~UseTLS
    /\ pc' = [pc EXCEPT ![c] = "finish"]
    /\ UNCHANGED <<config, manager, outConn, ret, conns, nilWatchers, crashed,
                   logs, dialVias, handshook, att, sleeps>>

\* lines 94-98: what a failed handshake does to the dialed stream: a warning,
\* a backoff and the next attempt, the stream itself left as it is
OnHandshakeErrorClose(s) == [s EXCEPT !.closed = TRUE]
OnHandshakeError(s) == s

\* tls.Client(outConn, config).Handshake() on a dialed stream (lines 88-100)
Handshake(c) ==
    /\ ~crashed
    /\ pc[c] = "secure"
    /\ UseTLS
    /\ outConn[c] # NilConn
    /\ handshook' = TRUE
    /\ \E ok \in BOOLEAN :
        IF ok
        THEN /\ conns' = [conns EXCEPT ![outConn[c]].tls = TRUE]
             /\ att' = [att EXCEPT ![c] = [@ EXCEPT !.hsDone = TRUE, !.hsOk = TRUE]]
             /\ pc' = [pc EXCEPT ![c] = "finish"]
        ELSE /\ att' = [att EXCEPT ![c] = [Warned(@) EXCEPT !.hsDone = TRUE]]
             /\ pc' = [pc EXCEPT ![c] = "backoff"]
             /\ conns' = [conns EXCEPT ![outConn[c]] = OnHandshakeError(@)]
    /\ UNCHANGED <<config, manager, outConn, ret, nilWatchers, crashed, logs,
                   dialVias, sleeps>>

\* tls.Client(nil, config).Handshake() (lines 92-93): the handshake writes to
\* the nil net.Conn, the run-time panics, the deferred Unlock of line 57 runs
\* and, nothing recovering, the process dies
HandshakePanic(c) ==
    /\ ~crashed
    /\ pc[c] = "secure"
    /\ UseTLS
    /\ outConn[c] = NilConn
    /\ handshook' = TRUE
    /\ att' = [att EXCEPT ![c] = [@ EXCEPT !.hsDone = TRUE]]
    /\ pc' = [pc EXCEPT ![c] = "panicked"]
    /\ mutex' = NoCaller
    /\ crashed' = TRUE
    /\ UNCHANGED <<config, retries, firstConn, outConn, ret, conns, nilWatchers,
                   logs, dialVias, sleeps>>

\* the stream a started watcher watches (line 103)
Watched(s) == [s EXCEPT !.returned = TRUE, !.watcher = "read", !.watchers = @ + 1]

\* success (lines 102-104) and the deferred Unlock (line 57)
Return(c) ==
    /\ ~crashed
    /\ pc[c] = "finish"
    /\ retries' = retriesOnSuccess
    /\ IF outConn[c] = NilConn
       THEN /\ nilWatchers' = nilWatchers + 1
            /\ UNCHANGED conns
       ELSE /\ conns' = [conns EXCEPT ![outConn[c]] = Watched(@)]
            /\ UNCHANGED nilWatchers
    /\ ret' = [ret EXCEPT ![c] = outConn[c]]
    /\ outConn' = [outConn EXCEPT ![c] = NilConn]
    /\ att' = [att EXCEPT ![c] = NoAttempt]
    /\ sleeps' = [sleeps EXCEPT ![c] = <<>>]
    /\ pc' = [pc EXCEPT ![c] = "returned"]
    /\ mutex' = NoCaller
    /\ UNCHANGED <<config, firstConn, crashed, logs, dialVias, handshook>>

\* cm.backoff() (lines 130-137), then continue
backoff(c) ==
    /\ ~crashed
    /\ pc[c] = "backoff"
    /\ sleeps' = [sleeps EXCEPT ![c] = Append(@, backoffDuration(retries))]
    /\ pc' = [pc EXCEPT ![c] = "loop"]
    /\ UNCHANGED <<config, manager, outConn, ret, conns, nilWatchers, crashed,
                   logs, dialVias, handshook, att>>

\* ----------------------------------------------------------- close-watcher
\* what conn.Read(buff) gives the watcher (line 118), "block" when it waits
ReadResult(s) ==
    IF s.closed THEN "err"
    ELSE IF s.pending > 0 THEN "byte"
    ELSE IF s.peer = "fin" THEN "eof"
    ELSE IF s.peer = "rst" THEN "err"
    ELSE "block"

\* conn.Close() (line 110); what the peer had pushed is dropped with the socket
Closed(s) == [s EXCEPT !.closed = TRUE, !.pending = 0]

\* lines 119-121: what the watcher does to its stream on io.EOF
OnEOFNoClose(s) == [s EXCEPT !.watcher = "closed"]
OnEOF(s) == [Closed(s) EXCEPT !.watcher = "closed"]

\* lines 122-124: what the watcher does to its stream on another error
OnErrorClose(s) == [Closed(s) EXCEPT !.watcher = "warned", !.warnings = @ + 1]
OnError(s) == [s EXCEPT !.watcher = "warned", !.warnings = @ + 1]

\* lines 116-118 with a nil error: the byte read into the one-byte buffer is
\* never looked at and the loop reads again
OnByteStop(s) == [s EXCEPT !.pending = @ - 1, !.discarded = TRUE, !.watcher = "closed"]
OnByte(s) == [s EXCEPT !.pending = @ - 1, !.discarded = TRUE]

\* one conn.Read of the watcher's loop returns (lines 116-118)
handleServerCloseReadLocked(k) ==
    /\ ~crashed
    /\ MutexFree
    /\ k \in ConnIds
    /\ conns[k].watcher = "read"
    /\ ReadResult(conns[k]) # "block"
    /\ conns' = [conns EXCEPT ![k] =
            IF ReadResult(@) = "byte" THEN OnByte(@)
            ELSE [@ EXCEPT !.watcher = ReadResult(conns[k])]]
    /\ UNCHANGED <<config, manager, pc, outConn, ret, nilWatchers, crashed, logs,
                   dialVias, handshook, att, sleeps>>
handleServerCloseRead(k) ==
    /\ ~crashed
    /\ k \in ConnIds
    /\ conns[k].watcher = "read"
    /\ ReadResult(conns[k]) # "block"
    /\ conns' = [conns EXCEPT ![k] =
            IF ReadResult(@) = "byte" THEN OnByte(@)
            ELSE [@ EXCEPT !.watcher = ReadResult(conns[k])]]
    /\ UNCHANGED <<config, manager, pc, outConn, ret, nilWatchers, crashed, logs,
                   dialVias, handshook, att, sleeps>>

\* the watcher acts on the read's error (lines 119-125)
handleServerCloseEnd(k) ==
    /\ ~crashed
    /\ k \in ConnIds
    /\ conns[k].watcher \in {"eof", "err"}
    /\ conns' = [conns EXCEPT ![k] =
            IF @.watcher = "eof" THEN OnEOF(@) ELSE OnError(@)]
    /\ UNCHANGED <<config, manager, pc, outConn, ret, nilWatchers, crashed, logs,
                   dialVias, handshook, att, sleeps>>

\* a watcher started on a nil conn calls conn.Read (line 118): the run-time
\* panics in a goroutine nothing recovers, and the process dies
handleServerCloseNil ==
    /\ ~crashed
    /\ nilWatchers > 0
    /\ crashed' = TRUE
    /\ UNCHANGED <<config, manager, pc, outConn, ret, conns, nilWatchers, logs,
                   dialVias, handshook, att, sleeps>>

\* ------------------------------------------------- the owner of a handle
\* CloseConnection (lines 109-111) on a handle NewConnection returned
CloseConnectionLocked(k) ==
    /\ ~crashed
    /\ MutexFree
    /\ k \in ConnIds
    /\ conns[k].returned
    /\ conns' = [conns EXCEPT ![k] = Closed(@)]
    /\ UNCHANGED <<config, manager, pc, outConn, ret, nilWatchers, crashed, logs,
                   dialVias, handshook, att, sleeps>>
CloseConnection(k) ==
    /\ ~crashed
    /\ k \in ConnIds
    /\ conns[k].returned
    /\ conns' = [conns EXCEPT ![k] = Closed(@)]
    /\ UNCHANGED <<config, manager, pc, outConn, ret, nilWatchers, crashed, logs,
                   dialVias, handshook, att, sleeps>>

\* what a Write by the owner of the handle reports
WriteResult(s) ==
    IF s.closed THEN "closed"
    ELSE IF s.peer = "rst" THEN "failed"
    ELSE "ok"

\* ------------------------------------------------------------------ the peer
\* the peer pushes a byte
PeerSend(k) ==
    /\ ~crashed
    /\ k \in ConnIds
    /\ conns[k].returned /\ ~conns[k].closed /\ conns[k].peer = "open"
    /\ conns[k].pending < MaxPending
    /\ conns' = [conns EXCEPT ![k].pending = @ + 1]
    /\ UNCHANGED <<config, manager, pc, outConn, ret, nilWatchers, crashed, logs,
                   dialVias, handshook, att, sleeps>>

\* the peer closes its side cleanly
PeerClose(k) ==
    /\ ~crashed
    /\ k \in ConnIds
    /\ conns[k].returned /\ ~conns[k].closed /\ conns[k].peer = "open"
    /\ conns' = [conns EXCEPT ![k].peer = "fin"]
    /\ UNCHANGED <<config, manager, pc, outConn, ret, nilWatchers, crashed, logs,
                   dialVias, handshook, att, sleeps>>

\* the connection is reset
PeerReset(k) ==
    /\ ~crashed
    /\ k \in ConnIds
    /\ conns[k].returned /\ ~conns[k].closed /\ conns[k].peer = "open"
    /\ conns' = [conns EXCEPT ![k].peer = "rst", ![k].pending = 0]
    /\ UNCHANGED <<config, manager, pc, outConn, ret, nilWatchers, crashed, logs,
                   dialVias, handshook, att, sleeps>>

\* The bounds of a run: a dial may succeed while fewer than maxConns streams
\* exist, and may fail into a nil return while fewer than MaxNilWatchers
\* watchers on nil are pending.
DialInBounds(ok, maxConns) ==
    IF ok THEN Len(conns) < maxConns
    ELSE UseTLS \/ ~UseProxy \/ nilWatchers < MaxNilWatchers

\* the steps inside NewConnection of the callers that take part in a run
Acquire(callers, maxRetries, maxConns) ==
    \/ \E c \in callers : Call(c)
    \/ \E c \in callers : Lock(c)
    \/ \E c \in callers : retries < maxRetries /\ BeginAttempt(c)
    \/ \E c \in callers : ProxySetupFail(c)
    \/ \E c \in callers, ok \in BOOLEAN :
          DialInBounds(ok, maxConns) /\ ProxyDial(c, ok)
    \/ \E c \in callers, ok \in BOOLEAN :
          DialInBounds(ok, maxConns) /\ DirectDial(c, ok)
    \/ \E c \in callers : SkipTLS(c)
    \/ \E c \in callers : Handshake(c)
    \/ \E c \in callers : HandshakePanic(c)
    \/ \E c \in callers : Return(c)
    \/ \E c \in callers : backoff(c)
    \/ handleServerCloseNil

\* the steps of the watchers, of the owners of handles and of the peers
Watch(maxConns) ==
    \/ \E k \in 1..maxConns : handleServerCloseRead(k)
    \/ \E k \in 1..maxConns : handleServerCloseEnd(k)
    \/ \E k \in 1..maxConns : CloseConnection(k)
    \/ \E k \in 1..maxConns : PeerSend(k)
    \/ \E k \in 1..maxConns : PeerClose(k)
    \/ \E k \in 1..maxConns : PeerReset(k)

Next == Acquire(Callers, MaxRetries, MaxConns) \/ Watch(MaxConns)

\* the whole system: callers, watchers, owners of handles and peers
Spec == Init /\ [][Next]_vars

\* the whole system again, within the bounds used for the claims about one
\* stream and its watcher
NextWatch ==
    \/ Acquire(1..MaxWatchCallers, MaxWatchRetries, MaxWatchConns)
    \/ Watch(MaxWatchConns)

SpecWatch == Init /\ [][NextWatch]_vars

\* Acquisition alone, with room for the backoff to reach its cap: the callers'
\* steps and the crash of a watcher started on nil. The steps left out (watchers
\* on real streams, owners, peers) change only the closed, peer, pending and
\* watcher fields of conns, which no step of NewConnection reads.
NextAcquire == Acquire(Callers, MaxAcquireRetries, MaxConns)

SpecAcquire == Init /\ [][NextAcquire]_vars

\* backoff as a function of retries: a caller holding the mutex stands at
\* cm.backoff() with retries drawn from 0..MaxBackoffInput, whatever the
\* configuration and the one-shot flag
InitBackoff ==
    /\ devModeNoSSL \in BOOLEAN
    /\ socksProxy \in ProxyAddresses
    /\ mutex = 1
    /\ retries \in 0..MaxBackoffInput
    /\ firstConn \in BOOLEAN
    /\ pc = [c \in Callers |-> IF c = 1 THEN "backoff" ELSE "idle"]
    /\ outConn = [c \in Callers |-> NilConn]
    /\ ret = [c \in Callers |-> NilConn]
    /\ conns = <<>>
    /\ nilWatchers = 0
    /\ crashed = FALSE
    /\ infoBackend = IF firstConn THEN 0 ELSE 1
    /\ attempted = ~firstConn
    /\ dialVias = {}
    /\ handshook = FALSE
    /\ att = [c \in Callers |-> NoAttempt]
    /\ sleeps = [c \in Callers |-> <<>>]

NextBackoff == \E c \in Callers : backoff(c)

SpecBackoff == InitBackoff /\ [][NextBackoff]_vars

\* the callers alone, scheduled fairly: a free mutex is handed to a caller
\* waiting at line 56, and the caller holding it goes on to its attempt
SpecAcquireFair ==
    /\ SpecAcquire
    /\ WF_vars(\E c \in Callers : Lock(c))
    /\ WF_vars(\E c \in Callers : retries < MaxAcquireRetries /\ BeginAttempt(c))

\* ------------------------------------------------------------------ claims
\* the positions of lines 59-105: inside the retry loop
AcquiringPcs == {"loop", "dial", "secure", "finish", "backoff"}
Acquiring(c) == pc[c] \in AcquiringPcs
\* caller c leaves NewConnection by its return statement in this step
Returns(c) == pc[c] = "finish" /\ pc'[c] = "returned"
\* the value min(2k, 30) of the claims, in seconds
CappedDouble(k) == Min(2 * k, 30)

\* C1: at most one caller is inside the acquisition sequence at a time, and
\* while a caller is inside it no other caller dials, handshakes, backs off,
\* or changes retries or firstConn: every such step is the step of that caller.
C1_OneAcquisitionAtATime ==
    /\ [](\A c, d \in Callers : (Acquiring(c) /\ Acquiring(d)) => c = d)
    /\ [](\A c \in Callers : Acquiring(c) => mutex = c)
    /\ [][\A c \in Callers : Acquiring(c) =>
            /\ \A d \in Callers \ {c} :
                 /\ pc'[d] \notin AcquiringPcs
                 /\ att'[d] = att[d] /\ sleeps'[d] = sleeps[d]
                 /\ outConn'[d] = outConn[d]
            /\ (retries' # retries \/ firstConn' # firstConn
                \/ dialVias' # dialVias \/ handshook' # handshook)
               => pc'[c] # pc[c]]_vars

\* C1 witness: one caller sleeps in backoff on its second attempt while the
\* other caller is blocked at the mutex
C1_Witness ==
    \E c, d \in Callers :
        /\ pc[c] = "backoff" /\ att[c].attempts = 2
        /\ pc[d] = "lock" /\ mutex = c

\* C2: NewConnection never surfaces a failure: it never panics, it reaches its
\* return only from an attempt whose dial succeeded and, unless devModeNoSSL,
\* whose handshake succeeded, and what it returns is an established stream
\* (TLS-wrapped unless devModeNoSSL) - stated as written; the code violates it.
C2_NeverSurfacesFailure ==
    \A c \in Callers :
        /\ pc[c] # "panicked"
        /\ pc[c] = "finish" =>
             /\ att[c].dialOk
             /\ devModeNoSSL \/ att[c].hsOk
             /\ outConn[c] \in ConnIds
        /\ pc[c] = "returned" =>
             /\ ret[c] \in ConnIds
             /\ devModeNoSSL \/ conns[ret[c]].tls

\* C3: in the step in which a NewConnection call returns, retries becomes 0,
\* whatever it was and whatever failures came before.
C3_RetriesZeroOnReturn ==
    [][\A c \in Callers : Returns(c) => retries' = 0]_vars

\* C3 witness: a call has returned the second stream dialed after the first
\* one failed its handshake, and retries is 0
C3_Witness ==
    \E c \in Callers :
        /\ pc[c] = "returned" /\ ret[c] = 2
        /\ ~conns[1].returned
        /\ mutex = NoCaller /\ retries = 0

\* C4: the "Connecting to the backend" diagnostic has been emitted exactly once
\* as soon as any attempt has been made, and not at all before; it is emitted
\* only in the step that makes the first attempt ever.
C4_BackendInfoOnce ==
    /\ [](infoBackend = IF attempted THEN 1 ELSE 0)
    /\ [][infoBackend' # infoBackend => (~attempted /\ attempted')]_vars

\* C4 witness: one caller's call has returned and another caller is on the
\* second attempt of a later call, with the diagnostic emitted once
C4_Witness ==
    \E c, d \in Callers :
        /\ pc[c] = "returned"
        /\ pc[d] = "dial" /\ att[d].attempts = 2
        /\ infoBackend = 1

\* C5: the sleep backoff performs is min(2 * retries, 30) seconds: 0 for
\* retries 0, 2 * retries up to 15, 30 from 15 on, whatever the configuration
\* and the one-shot flag.
C5_BackoffDuration ==
    \A c \in Callers :
        Len(sleeps[c]) = 1 =>
            /\ sleeps[c][1] = CappedDouble(retries)
            /\ retries = 0 => sleeps[c][1] = 0
            /\ retries <= 15 => sleeps[c][1] = 2 * retries
            /\ retries >= 15 => sleeps[c][1] = 30

\* C5 witness: backoff has slept 30 seconds with retries = 100
C5_Witness ==
    \E c \in Callers : retries = 100 /\ sleeps[c] = <<30>> /\ pc[c] = "loop"

\* C6: when a call returns from attempt n+1 after n failed attempts, it has
\* emitted n warnings and slept n times, the k-th sleep min(2k, 30) seconds,
\* it returns one established stream, and retries is 0 afterwards.
C6_FailuresThenSuccess ==
    [][\A c \in Callers :
        (Returns(c) /\ att[c].dialOk /\ (devModeNoSSL \/ att[c].hsOk)) =>
            /\ att[c].fails = att[c].attempts - 1
            /\ att[c].warns = att[c].fails
            /\ Len(sleeps[c]) = att[c].fails
            /\ \A k \in 1..Len(sleeps[c]) : sleeps[c][k] = CappedDouble(k)
            /\ ret'[c] \in ConnIds /\ ret'[c] = outConn[c]
            /\ retries' = 0]_vars

\* C6 witness: with devModeNoSSL, the dial failed twice and succeeded on the
\* third attempt: two warnings, sleeps of 2 s then 4 s, the call at its return
C6_Witness ==
    \E c \in Callers :
        /\ devModeNoSSL /\ pc[c] = "finish"
        /\ att[c].attempts = 3 /\ att[c].fails = 2 /\ att[c].warns = 2
        /\ att[c].dialOk /\ outConn[c] \in ConnIds
        /\ sleeps[c] = <<2, 4>>

C8_DialRoute ==
    /\ dialVias \subseteq {IF socksProxy # "" THEN "socks5" ELSE "direct"}
    /\ \A k \in ConnIds :
         conns[k].via = IF socksProxy # "" THEN "socks5" ELSE "direct"

\* C8 witness: with a proxy configured, a retry after a proxy-construction
\* failure has dialed through the proxy
C8_Witness ==
    \E c \in Callers :
        /\ socksProxy # "" /\ pc[c] = "secure"
        /\ att[c].attempts = 2 /\ att[c].warns = 1
        /\ dialVias = {"socks5"}

\* C9: a watcher whose read yielded end-of-stream closes its stream and
\* terminates in its next step; the stream of a watcher that ended so is
\* closed, stays closed, and a write on it reports a closed connection.
C9_WatcherClosesOnEOF ==
    /\ [](\A k \in ConnIds :
            conns[k].watcher = "closed" =>
                (conns[k].closed /\ WriteResult(conns[k]) = "closed"))
    /\ [][\A k \in ConnIds :
            /\ (conns[k].watcher = "eof" /\ conns'[k].watcher # "eof") =>
                   (conns'[k].watcher = "closed" /\ conns'[k].closed)
            /\ conns[k].watcher = "closed" => conns'[k].watcher = "closed"
            /\ conns[k].closed => conns'[k].closed]_vars

\* C9 witness: the peer closed its side, the watcher read end-of-stream, closed
\* the stream and ended, and a write by the owner reports a closed connection
C9_Witness ==
    \E c \in Callers :
        /\ pc[c] = "returned" /\ ret[c] \in ConnIds
        /\ conns[ret[c]].peer = "fin"
        /\ conns[ret[c]].watcher = "closed"
        /\ WriteResult(conns[ret[c]]) = "closed"

\* C10: there is no abort path and a call whose every attempt failed never
\* returns: a call is never ended by a panic, and it reaches its return only
\* when its last attempt did not fail - stated as written; the code violates it.
C10_NoAbortNoFailedReturn ==
    \A c \in Callers :
        /\ pc[c] # "panicked"
        /\ pc[c] = "finish" => att[c].fails < att[c].attempts

\* C11: an informational diagnostic is emitted only during the manager's first
\* attempt ever - no later attempt emits one, with a proxy or without - and
\* every failed proxy setup, dial or handshake of a call has emitted one
\* warning - stated as written; the code violates it.
C11_InfoOnlyOnFirstAttempt ==
    \A c \in Callers :
        /\ ~att[c].first => att[c].infos = 0
        /\ att[c].warns = att[c].fails

\* the attempt a caller is finishing really produced a stream: its dial
\* succeeded and, unless devModeNoSSL, so did its handshake
AttemptSucceeded(c) == att[c].dialOk /\ (devModeNoSSL \/ att[c].hsOk)

\* C12: retries is never negative and changes only by a step of the caller
\* holding the mutex: up by exactly one when that caller starts an attempt, to
\* zero exactly in the step where an attempt of that caller succeeds; every
\* other step leaves it alone - stated as written; the code violates it.
C12_RetriesOnlyByHolder ==
    [][/\ retries' >= 0
       /\ retries' # retries =>
            \E c \in Callers :
                /\ mutex = c
                /\ \/ pc[c] = "loop" /\ pc'[c] = "dial" /\ retries' = retries + 1
                   \/ Returns(c) /\ AttemptSucceeded(c) /\ retries' = 0
       /\ \A c \in Callers :
            /\ (pc[c] = "loop" /\ pc'[c] = "dial") => retries' = retries + 1
            /\ (Returns(c) /\ AttemptSucceeded(c)) => retries' = 0]_vars

\* C13: a watcher whose read failed with an error other than end-of-stream
\* emits one warning and terminates without closing the stream; a watcher
\* closes its stream only after a read that returned end-of-stream; after the
\* warning it never reads again.
C13_ErrorWarnsWithoutClosing ==
    [][\A k \in ConnIds :
        /\ (conns[k].watcher = "err" /\ conns'[k].watcher # "err") =>
              /\ conns'[k].watcher = "warned"
              /\ conns'[k].warnings = conns[k].warnings + 1
              /\ conns'[k].closed = conns[k].closed
        /\ (conns'[k].watcher # conns[k].watcher
              /\ conns'[k].closed /\ ~conns[k].closed) =>
              conns[k].watcher = "eof"
        /\ conns[k].watcher = "warned" =>
              /\ conns'[k].watcher = "warned"
              /\ conns'[k].warnings = 1
              /\ conns'[k].pending >= conns[k].pending \/ conns'[k].pending = 0]_vars

\* C13 witness: the connection was reset, the watcher warned once and ended,
\* and the stream is still open on this side
C13_Witness ==
    \E k \in ConnIds :
        /\ conns[k].peer = "rst" /\ conns[k].watcher = "warned"
        /\ conns[k].warnings = 1 /\ ~conns[k].closed

\* the step of stream k is its watcher's read returning a byte
ReadsByte(k) ==
    /\ conns[k].watcher = "read" /\ ReadResult(conns[k]) = "byte"
    /\ conns'[k] # conns[k]
    /\ conns'[k].peer = conns[k].peer /\ conns'[k].closed = conns[k].closed
    /\ conns'[k].pending <= conns[k].pending

\* C14: a byte the watcher reads is dropped and the watcher goes on reading:
\* the stream is not closed, no diagnostic is emitted, and after any number of
\* bytes the watcher still reads the end-of-stream and closes the stream.
C14_BytesDiscarded ==
    [][\A k \in ConnIds :
        /\ ReadsByte(k) =>
              /\ conns'[k] = [conns[k] EXCEPT !.pending = @ - 1, !.discarded = TRUE]
              /\ conns'[k].watcher = "read" /\ conns'[k].warnings = 0
        /\ (conns[k].discarded /\ conns[k].watcher = "read"
              /\ ReadResult(conns[k]) = "eof"
              /\ conns'[k].watcher # "read") => conns'[k].watcher = "eof"
        /\ (conns[k].discarded /\ conns[k].watcher = "eof"
              /\ conns'[k].watcher # "eof") =>
              conns'[k].watcher = "closed" /\ conns'[k].closed]_vars

\* C14 witness: the watcher dropped a byte, went on, read the peer's
\* end-of-stream and closed the stream, without a warning
C14_Witness ==
    \E k \in ConnIds :
        /\ conns[k].discarded /\ conns[k].peer = "fin"
        /\ conns[k].watcher = "closed" /\ conns[k].closed
        /\ conns[k].warnings = 0

\* the step changes the position of stream k's watcher
WatcherSteps(k) ==
    conns[k].watcher # "none" /\ conns'[k].watcher # conns[k].watcher

\* C15: a watcher neither holds nor waits for the mutex. While the process
\* runs, a caller waiting for a free mutex can take it whatever the watchers
\* are doing, a watcher whose read can return, or has returned, can take its
\* step whoever holds the mutex, and no step of a watcher touches the mutex,
\* retries, firstConn or a caller's position.
C15_WatcherNeedsNoLock ==
    /\ [](~crashed =>
            /\ \A c \in Callers :
                  (pc[c] = "lock" /\ mutex = NoCaller) => ENABLED Lock(c)
            /\ \A k \in ConnIds :
                  /\ (conns[k].watcher = "read" /\ ReadResult(conns[k]) # "block")
                        => ENABLED handleServerCloseRead(k)
                  /\ conns[k].watcher \in {"eof", "err"}
                        => ENABLED handleServerCloseEnd(k))
    /\ [][\A k \in ConnIds : WatcherSteps(k) => UNCHANGED <<manager, pc>>]_vars

\* C15 witness: the watcher of the first stream is blocked in its read, a
\* later call has returned the second stream, and the watcher of that one has
\* read the end-of-stream while another caller holds the mutex between two
\* attempts
C15_Witness ==
    \E c, d \in Callers :
        /\ Len(conns) = 2
        /\ conns[1].watcher = "read" /\ ReadResult(conns[1]) = "block"
        /\ pc[c] = "returned" /\ ret[c] = 2
        /\ conns[2].watcher = "eof"
        /\ mutex = d /\ pc[d] = "backoff"

\* C16: closing a stream changes that stream and nothing else: the mutex,
\* retries, firstConn, every caller and every other stream stay as they were;
\* and while the process runs CloseConnection on a returned handle can take
\* its step whoever holds the mutex.
C16_CloseTouchesOnlyItsStream ==
    /\ [](~crashed =>
            \A k \in ConnIds : conns[k].returned => ENABLED CloseConnection(k))
    /\ [][\A k \in ConnIds :
            (conns'[k].closed /\ ~conns[k].closed) =>
                /\ UNCHANGED <<manager, pc, outConn, ret>>
                /\ Len(conns') = Len(conns)
                /\ \A j \in ConnIds \ {k} : conns'[j] = conns[j]
                /\ conns'[k] = [Closed(conns[k]) EXCEPT
                                    !.watcher = conns'[k].watcher]]_vars

\* C16 witness: the owner has closed the first stream (its watcher has not
\* noticed yet) while another caller holds the mutex between two attempts; the
\* second stream is still open and retries still counts that caller's failure
C16_Witness ==
    \E d \in Callers :
        /\ Len(conns) = 2
        /\ conns[1].returned /\ conns[1].closed /\ conns[1].watcher = "read"
        /\ conns[2].returned /\ ~conns[2].closed
        /\ mutex = d /\ pc[d] = "backoff" /\ retries = 1

\* a stream no caller was handed and no attempt still works on
Unowned(k) ==
    /\ ~conns[k].returned
    /\ \A c \in Callers : pc[c] \in {"secure", "finish"} => outConn[c] # k

\* C17: a failed TLS handshake closes nothing. The step changes no stream and
\* leaves the dialed one unowned - one more than before; an unowned stream
\* stays open, unwrapped, without a watcher, and is never returned or touched
\* again; every dial that succeeds produces a stream that did not exist.
C17_HandshakeFailureLeaksStream ==
    /\ [](\A k \in ConnIds :
            Unowned(k) => /\ ~conns[k].closed /\ ~conns[k].tls
                          /\ conns[k].watcher = "none" /\ conns[k].watchers = 0)
    /\ [][\A c \in Callers :
            (pc[c] = "secure" /\ pc'[c] = "backoff") =>
                /\ conns' = conns
                /\ outConn[c] \in ConnIds
                /\ ~Unowned(outConn[c]) /\ Unowned(outConn[c])'
                /\ Cardinality({k \in ConnIds : Unowned(k)'}) =
                       Cardinality({k \in ConnIds : Unowned(k)}) + 1]_vars
    /\ [][\A k \in ConnIds :
            Unowned(k) => Unowned(k)' /\ conns'[k] = conns[k]]_vars
    /\ [][\A c \in Callers :
            (pc[c] = "dial" /\ pc'[c] = "secure" /\ outConn'[c] # NilConn) =>
                /\ outConn'[c] = Len(conns) + 1
                /\ Len(conns') = Len(conns) + 1
                /\ conns'[outConn'[c]] = NewStream(conns'[outConn'[c]].via)]_vars

\* C17 witness: two handshakes of one call have failed; the two streams they
\* ran on are open and unowned, the second one dialed afresh
C17_Witness ==
    \E c \in Callers :
        /\ pc[c] = "backoff" /\ att[c].attempts = 2 /\ att[c].warns = 2
        /\ att[c].dialOk /\ att[c].hsDone /\ ~att[c].hsOk
        /\ Len(conns) = 2 /\ outConn[c] = 2
        /\ \A k \in ConnIds : Unowned(k) /\ ~conns[k].closed

\* the watchers of real streams: one per returned stream, none on any other,
\* each started in the return step of the call that is handed the stream
StreamWatchers ==
    /\ [](\A k \in ConnIds :
            /\ conns[k].watchers = IF conns[k].returned THEN 1 ELSE 0
            /\ conns[k].watcher # "none" <=> conns[k].returned)
    /\ [][\A k \in ConnIds :
            conns'[k].watchers # conns[k].watchers =>
                \E c \in Callers :
                    /\ mutex = c /\ Returns(c) /\ outConn[c] = k
                    /\ ret'[c] = k /\ retries' = 0
                    /\ conns'[k].watchers = 1 /\ conns'[k].watcher = "read"]_vars

\* C18: exactly one watcher is started per returned stream, over that stream,
\* in the step that resets retries and returns; no watcher is ever started for
\* an attempt that failed at proxy construction, dial or handshake - stated
\* as written; the code violates it.
C18_OneWatcherPerReturn ==
    /\ StreamWatchers
    /\ [](nilWatchers = 0)
    /\ [][\A c \in Callers :
            Returns(c) => AttemptSucceeded(c) /\ ret'[c] \in ConnIds]_vars

\* every sleep of a call in progress lasts at least backoffSleepTimeUnit, the
\* first one exactly that
SleepsFromUnit ==
    \A c \in Callers :
        /\ \A i \in 1..Len(sleeps[c]) : sleeps[c][i] >= backoffSleepTimeUnit
        /\ Len(sleeps[c]) >= 1 => sleeps[c][1] = backoffSleepTimeUnit

\* C19: whenever the mutex is free retries is 0, so every call starts from 0:
\* the first failed attempt of any call sleeps exactly 2 seconds and no sleep
\* is shorter than 2 seconds - stated as written; the code violates it.
C19_FreeMutexZeroRetries ==
    /\ mutex = NoCaller => retries = 0
    /\ SleepsFromUnit

\* a free mutex with a caller waiting for it leads to a caller holding it and
\* started on its first attempt
WaiterGetsMutex ==
    (mutex = NoCaller /\ \E d \in Callers : pc[d] = "lock")
        ~> (\E e \in Callers : mutex = e /\ att[e].attempts >= 1)

\* C20: the mutex is released exactly when NewConnection returns and is never
\* left held; once it is free a waiting caller eventually holds it and starts
\* its first attempt; while a caller's attempts go on, every caller waiting
\* for the mutex stays waiting - stated as written; the code violates it.
C20_MutexReleasedOnReturn ==
    /\ [][\A c \in Callers :
            /\ (mutex = c /\ mutex' # c) => (Returns(c) /\ mutex' = NoCaller)
            /\ Returns(c) => (mutex = c /\ mutex' = NoCaller)]_vars
    /\ [](\A c \in Callers : pc[c] \in {"idle", "lock", "returned"} => mutex # c)
    /\ [][\A c, d \in Callers :
            (Acquiring(c) /\ Acquiring(c)' /\ pc[d] = "lock") => pc'[d] = "lock"]_vars
    /\ WaiterGetsMutex

====
